---- MODULE Spec2Model ----
(***************************************************************************)
(* DeepArPrimitive (kf_d3m_primitives/ts_forecasting/deep_ar/deepar.py):   *)
(* the fit / produce life cycle of one primitive instance, its timestamp   *)
(* regularisation, its offset computation and the assembly of its output.  *)
(*                                                                         *)
(* Time is counted in ticks: the frequency "H" is one tick, the frequency  *)
(* "D" is DayTicks ticks.  A table is a sequence of rows [g, t]; the row   *)
(* at position i carries the label idx = i, which also stands for the      *)
(* target value of that row.  Columns are named instead of numbered.       *)
(***************************************************************************)
EXTENDS Integers, Sequences, FiniteSets, TLC

\* ------------------------------------------------------------------ bounds
MaxTime == 2
MaxRows == 2
MaxTrainRows == 3
MaxTrainTime == 3
MaxPredLen == 2
DayTicks == 2
MaxFits == 2
LifeTime == 1
LifeRows == 2
LifeCalls == 2
PersistQueries == 3
MaxTypes == 3

Groups == {"A", "B"}
OutNames == {"y", "z"}
RoleTypes ==
  {"Time", "Integer", "CategoricalData", "GroupingKey", "SuggestedGroupingKey", "TrueTarget"}
QuantileSets == {<<>>, <<5>>, <<1, 9>>}

\* ------------------------------------------------------- values and tables
None == <<>>
Some(v) == <<v>>
IsNone(o) == o = <<>>
Get(o) == o[1]

NA == "NA"
ListKey == "[0]"
Columns == <<"g", "t", "y">>

Max(a, b) == IF a > b THEN a ELSE b

\* the element of a one-element set: binds a computed value to a name
Only(S) == CHOOSE x \in S : TRUE

Range(s) == {s[i] : i \in DOMAIN s}

RECURSIVE Concat(_)
Concat(ss) == IF ss = <<>> THEN <<>> ELSE Head(ss) \o Concat(Tail(ss))

\* the tables a caller may pass in the environment e
RowSeqs(lens, e) == UNION {[1..k -> [g : e.groups, t : 0..e.maxt]] : k \in lens}

Metadata(grouped, tsInt, hasTarget) ==
  [c \in Range(Columns) |->
     CASE c = "g" -> {"CategoricalData"} \cup (IF grouped THEN {"GroupingKey"} ELSE {})
       [] c = "t" -> {"Time"} \cup (IF tsInt THEN {"Integer"} ELSE {"Float"})
       [] c = "y" -> {"Float"} \cup (IF hasTarget THEN {"TrueTarget"} ELSE {})]

TrainTables(e) ==
  {[rows |-> r, md |-> Metadata(gr, ti, ht)] :
     r \in RowSeqs(e.trainLens, e), gr \in e.grouped, ti \in e.ints, ht \in e.targets}

QueryTables(e) ==
  {[rows |-> r, md |-> Metadata(FALSE, ti, TRUE)] : r \in RowSeqs(e.queryLens, e), ti \in e.ints}

\* tables without rows whose columns carry any few semantic types
TypedTables ==
  {[rows |-> <<>>, md |-> md] :
     md \in [Range(Columns) -> {ts \in SUBSET RoleTypes : Cardinality(ts) <= MaxTypes}]}

NoTable == [rows |-> <<>>, md |-> Metadata(FALSE, FALSE, FALSE)]

\* the data frame of a table: every row keeps its label
Frame(rows) == [i \in DOMAIN rows |-> [idx |-> i, g |-> rows[i].g, t |-> rows[i].t]]

\* ------------------------------------------------------------------- state
VARIABLES hyperparams, freq, reind_freq, is_fit, all_preds, pred_intervals,
          output_column, columns, min_trains, deepar_dataset, weights,
          saved, last, result, env, stale, peer

vars == <<hyperparams, freq, reind_freq, is_fit, all_preds, pred_intervals,
          output_column, columns, min_trains, deepar_dataset, weights,
          saved, last, result, env, stale, peer>>

fitted == <<freq, reind_freq, is_fit, output_column, columns, min_trains, deepar_dataset>>

Construct(h) ==
  /\ hyperparams = h
  /\ freq = "None"
  /\ reind_freq = "Unset"
  /\ is_fit = FALSE
  /\ all_preds = None
  /\ pred_intervals = None
  /\ output_column = "Unset"
  /\ columns = None
  /\ min_trains = None
  /\ deepar_dataset = None
  /\ weights = [fit |-> 0, data |-> None]
  /\ saved = None
  /\ last = [op |-> "init", table |-> NoTable, out |-> "", outcome |-> "ok", computed |-> FALSE]
  /\ result = <<>>
  /\ stale = "no"
  /\ peer = None

Hyperparams ==
  [prediction_length : 1..MaxPredLen, nan_padding : BOOLEAN, quantiles : QuantileSets]

\* the default configuration, but for the horizon
DefaultHyperparams ==
  [prediction_length : 1..MaxPredLen, nan_padding : {TRUE}, quantiles : {<<>>}]

\* ------------------------------------------------------------ column roles
list_columns_with_semantic_types(md, types) ==
  SelectSeq(Columns, LAMBDA c : md[c] \cap types # {})

process_special_col(col_list) ==
  IF Len(col_list) = 0 THEN "None" ELSE col_list[1]

diff(li1, li2) == Range(li1) \ Range(li2)

target_columns(md) ==
  list_columns_with_semantic_types(md, {"SuggestedTarget", "TrueTarget", "Target"})

get_cols(md) ==
  LET timestamp_columns == list_columns_with_semantic_types(md, {"Time", "DateTime"})
      explicit == list_columns_with_semantic_types(md, {"GroupingKey"})
      suggested_group_cols == list_columns_with_semantic_types(md, {"SuggestedGroupingKey"})
      grouping == IF Len(explicit) = 0 THEN suggested_group_cols ELSE explicit
      cat == list_columns_with_semantic_types(md, {"CategoricalData"})
      real == list_columns_with_semantic_types(md, {"Integer", "Float"})
      target == process_special_col(target_columns(md))
      timestamp == process_special_col(timestamp_columns)
  IN [target_column |-> target,
      timestamp_column |-> timestamp,
      grouping_columns |-> grouping,
      cat_columns |-> diff(cat, grouping \o suggested_group_cols),
      real_columns |-> diff(real, <<timestamp>> \o <<target>> \o grouping),
      target_semantic_types |-> md[target]]

\* -------------------------------------------------------------- timestamps
Period(f) == IF f = "D" THEN DayTicks ELSE 1

calculate_time_frequency(d) ==
  IF d % DayTicks = 0 THEN [freq |-> "D", reind_freq |-> "D"]
                      ELSE [freq |-> "H", reind_freq |-> "H"]

discretize_time_difference(times, initial_time, f) ==
  [i \in DOMAIN times |-> (times[i] - initial_time) \div Period(f)]

to_datetime(v, isInt) == IF isInt THEN (v - 1) * DayTicks ELSE v

IsIntegerTime(md, cols) == "Integer" \in md[cols.timestamp_column]

\* the elements of s at the positions in keep, in their order in s
Pick(s, keep) ==
  [k \in 1..Cardinality(keep) |->
     s[CHOOSE i \in keep : Cardinality({j \in keep : j <= i}) = k]]

\* position of row i of the frame after a stable sort by time
rank(frame, i) ==
  Cardinality({j \in DOMAIN frame :
                 frame[j].t < frame[i].t \/ (frame[j].t = frame[i].t /\ j <= i)})

sort_values(frame) ==
  [k \in DOMAIN frame |-> frame[CHOOSE i \in DOMAIN frame : rank(frame, i) = k]]

sort_by_timestamp(frame, isInt) ==
  Only({sort_values(converted) :
          converted \in {[i \in DOMAIN frame |-> [frame[i] EXCEPT !.t = to_datetime(@, isInt)]]}})

\* ---------------------------------------------------------------- grouping
group_key(row, g_cols) == row[g_cols[1]]

\* the group keys of a frame in first-encountered order (groupby, sort=False)
group_order(frame, g_cols) ==
  LET firsts == {i \in DOMAIN frame :
                   \A j \in 1..(i - 1) : group_key(frame[j], g_cols) # group_key(frame[i], g_cols)}
      rows == Pick(frame, firsts)
  IN [k \in DOMAIN rows |-> group_key(rows[k], g_cols)]

group_frame(frame, g_cols, k) == SelectSeq(frame, LAMBDA r : group_key(r, g_cols) = k)

\* ---------------------------------------------------------- regularisation
drop_duplicates(frame) ==
  Pick(frame, {i \in DOMAIN frame : \A j \in 1..(i - 1) : frame[j].t # frame[i].t})

\* a grid that always ends with the last observed time, on the grid or not
date_range_closed(first, lst, f) ==
  [k \in 1..((lst - first) \div Period(f) + 1) |-> first + (k - 1) * Period(f)]
    \o (IF (lst - first) % Period(f) = 0 THEN <<>> ELSE <<lst>>)

date_range(first, lst, f) ==
  [k \in 1..((lst - first) \div Period(f) + 1) |-> first + (k - 1) * Period(f)]

reindex(frame, grid) ==
  [k \in DOMAIN grid |->
     IF \E i \in DOMAIN frame : frame[i].t = grid[k]
     THEN frame[CHOOSE i \in DOMAIN frame : frame[i].t = grid[k]]
     ELSE [idx |-> 0, g |-> NA, t |-> grid[k]]]

\* forward fill of the column g: a missing value takes the last known one
ffill(frame) ==
  [k \in DOMAIN frame |->
     IF frame[k].g # NA \/ \A j \in 1..k : frame[j].g = NA THEN frame[k]
     ELSE [frame[k] EXCEPT !.g =
             frame[CHOOSE j \in 1..k : frame[j].g # NA /\ \A m \in (j + 1)..k : frame[m].g = NA].g]]

regularize(sorted, reind, cols) ==
  Only({[frame |-> Only({IF "g" \in cols.cat_columns \cup Range(cols.grouping_columns)
                         THEN ffill(regular) ELSE regular :
                           regular \in {IF Len(unique) > 1
                                        THEN reindex(unique, date_range(unique[1].t,
                                                                        unique[Len(unique)].t, reind))
                                        ELSE unique}}),
         original_times |-> [i \in DOMAIN sorted |-> sorted[i].t]] :
          unique \in {drop_duplicates(sorted)}})

robust_reindex(frame, isInt, reind, cols) ==
  Only({regularize(sorted, reind, cols) : sorted \in {sort_by_timestamp(frame, isInt)}})

RECURSIVE max_length(_, _)
max_length(dfs, n) ==
  IF n = 0 THEN 0
  ELSE Only({IF Len(dfs[n].frame) > max_train_length THEN Len(dfs[n].frame)
             ELSE max_train_length : max_train_length \in {max_length(dfs, n - 1)}})

reindex_groups(keys, frame, isInt, reind, cols) ==
  Only({[frame |-> Concat([j \in DOMAIN keys |-> dfs[j].frame]),
         min_trains |-> [j \in DOMAIN keys |-> [grp |-> keys[j], start |-> dfs[j].frame[1].t]],
         max_train_length |-> max_length(dfs, Len(dfs)),
         original_times |-> [j \in DOMAIN keys |->
                               [grp |-> keys[j], times |-> dfs[j].original_times]]] :
          dfs \in {[j \in DOMAIN keys |->
                      robust_reindex(group_frame(frame, cols.grouping_columns, keys[j]),
                                     isInt, reind, cols)]}})

reindex_frame(frame, isInt, reind, cols) ==
  IF Len(cols.grouping_columns) = 0
  THEN Only({[frame |-> rr.frame,
              min_trains |-> <<[grp |-> ListKey, start |-> rr.frame[1].t]>>,
              max_train_length |-> Len(rr.frame),
              original_times |-> <<[grp |-> ListKey, times |-> rr.original_times]>>] :
               rr \in {robust_reindex(frame, isInt, reind, cols)}})
  ELSE Only({reindex_groups(keys, frame, isInt, reind, cols) :
               keys \in {group_order(frame, cols.grouping_columns)}})

set_freq(frame, cols, f, rf) ==
  IF f # "None" THEN [raise |-> FALSE, freq |-> f, reind_freq |-> rf]
  ELSE LET df == IF Len(cols.grouping_columns) = 0 THEN frame
                 ELSE group_frame(frame, cols.grouping_columns,
                                  group_key(frame[1], cols.grouping_columns))
       IN IF Len(df) < 2 THEN [raise |-> TRUE, freq |-> f, reind_freq |-> rf]
          ELSE LET c == calculate_time_frequency(df[2].t - df[1].t)
               IN [raise |-> FALSE, freq |-> c.freq, reind_freq |-> c.reind_freq]

\* the horizon check with its comparison off by one
check_window_support_inclusive(max_train_length) ==
  max_train_length <= hyperparams.prediction_length

\* TRUE when _check_window_support raises
check_window_support(max_train_length) ==
  max_train_length < hyperparams.prediction_length

\* ------------------------------------------------- forecasts and projection
NaN == [fit |-> 0, grp |-> "", stat |-> 0, step |-> 0]

NumStats == Len(hyperparams.quantiles) + 1

\* the model's forecast for one series: one row per statistic, one value per step
forecast_array(w, grp) ==
  [s \in 1..NumStats |->
     [k \in 1..hyperparams.prediction_length |->
        [fit |-> w.fit, grp |-> grp, stat |-> s, step |-> k]]]

pad_value(fa, s) ==
  IF hyperparams.nan_padding THEN NaN ELSE fa[s][hyperparams.prediction_length]

project(fa, s, o) ==
  IF 1 <= o /\ o <= hyperparams.prediction_length THEN fa[s][o] ELSE pad_value(fa, s)

RECURSIVE SeqMax(_)
SeqMax(s) == IF Len(s) <= 1 THEN s[1] ELSE Max(s[1], SeqMax(Tail(s)))

\* one padded array per series, indexed from 0 by offset
pad(fa, interval) ==
  LET n == Max(hyperparams.prediction_length, SeqMax(interval)) + 1
  IN [s \in 1..NumStats |-> [o \in 0..(n - 1) |-> project(fa, s, o)]]

predict(w, original_times, intervals) ==
  [j \in DOMAIN intervals |-> pad(forecast_array(w, original_times[j].grp), intervals[j])]

\* numpy indexing of a one-dimensional array by a list of integers
np_in_range(arr, o) ==
  LET n == Cardinality(DOMAIN arr) IN -n <= o /\ o < n

np_item(arr, o) ==
  LET n == Cardinality(DOMAIN arr) IN arr[IF o < 0 THEN n + o ELSE o]

np_take(arr, idxs) == [i \in DOMAIN idxs |-> np_item(arr, idxs[i])]

np_take_ok(arr, idxs) == \A i \in DOMAIN idxs : np_in_range(arr, idxs[i])

\* ------------------------------------------------------------------ offsets
start_of(mt, grp) == (CHOOSE e \in Range(mt) : e.grp = grp).start

get_pred_intervals(original_times, cols, mt, f) ==
  IF Len(cols.grouping_columns) = 0
  THEN <<[i \in DOMAIN original_times[1].times |->
            discretize_time_difference(original_times[1].times, mt[1].start, f)[i] + 1]>>
  ELSE [j \in DOMAIN original_times |->
          LET grp == original_times[j].grp
              times == original_times[j].times
              intervals == IF \E e \in Range(mt) : e.grp = grp
                           THEN discretize_time_difference(times, start_of(mt, grp), f)
                           ELSE [i \in DOMAIN times |-> 0]
          IN [i \in DOMAIN times |-> intervals[i] + 1]]

\* --------------------------------------------------------------- operations
DeepARDataset(frame, cols, f) ==
  [frame |-> frame,
   group_cols |-> cols.grouping_columns,
   cat_cols |-> cols.cat_columns,
   real_cols |-> cols.real_columns,
   time_col |-> cols.timestamp_column,
   target_col |-> cols.target_column,
   freq |-> f,
   prediction_length |-> hyperparams.prediction_length,
   target_semantic_types |-> cols.target_semantic_types]

Called(op, tab, out, outcome, computed) ==
  last' = [op |-> op, table |-> tab, out |-> out, outcome |-> outcome, computed |-> computed]

SetTrainingData(tab, out) ==
  /\ env.train > 0
  /\ env' = [env EXCEPT !.train = @ - 1]
  /\ output_column' = out
  /\ result' = <<>>
  /\ UNCHANGED <<hyperparams, is_fit, all_preds, pred_intervals, weights, saved, peer>>
  /\ IF Len(target_columns(tab.md)) = 0
     THEN /\ Called("set_training_data", tab, out, "ValueError: no target", FALSE)
          /\ UNCHANGED <<freq, reind_freq, columns, min_trains, deepar_dataset>>
     ELSE \E frame \in {Frame(tab.rows)}, cols \in {get_cols(tab.md)} :
          \E sf \in {set_freq(frame, cols, freq, reind_freq)} :
             /\ columns' = Some(cols)
             /\ IF sf.raise
                THEN /\ Called("set_training_data", tab, out, "IndexError", FALSE)
                     /\ UNCHANGED <<freq, reind_freq, min_trains, deepar_dataset>>
                ELSE \E isInt \in {IsIntegerTime(tab.md, cols)} :
                     \E f \in {IF isInt THEN "D" ELSE sf.freq},
                        rf \in {IF isInt THEN "D" ELSE sf.reind_freq} :
                     \E ri \in {reindex_frame(frame, isInt, rf, cols)} :
                        /\ freq' = f
                        /\ reind_freq' = rf
                        /\ min_trains' = Some(ri.min_trains)
                        /\ IF check_window_support(ri.max_train_length)
                           THEN /\ Called("set_training_data", tab, out, "ValueError: horizon", FALSE)
                                /\ UNCHANGED deepar_dataset
                           ELSE /\ Called("set_training_data", tab, out, "ok", FALSE)
                                /\ deepar_dataset' = Some(DeepARDataset(ri.frame, cols, f))
  /\ stale' = IF last'.outcome = "ok" /\ ~IsNone(all_preds) /\ stale = "no"
              THEN "trained" ELSE stale

Fit ==
  /\ weights.fit < MaxFits
  /\ result' = <<>>
  /\ UNCHANGED <<hyperparams, freq, reind_freq, all_preds, pred_intervals, output_column,
                 columns, min_trains, deepar_dataset, saved, env, peer>>
  /\ IF IsNone(deepar_dataset)
     THEN /\ Called("fit", NoTable, "", "AttributeError", FALSE)
          /\ UNCHANGED <<is_fit, weights, stale>>
     ELSE /\ Called("fit", NoTable, "", "ok", FALSE)
          /\ stale' = IF stale = "trained" THEN "refit" ELSE stale
          /\ weights' = [fit |-> weights.fit + 1, data |-> deepar_dataset]
          /\ is_fit' = TRUE

\* _produce: the forecasts and the offsets of a query table
produce_internal(tab) ==
  Only({Only({Only({[freq |-> IF isInt THEN "D" ELSE freq,
                     reind_freq |-> IF isInt THEN "D" ELSE reind_freq,
                     preds |-> predict(weights, ri.original_times, intervals),
                     pred_intervals |-> intervals] :
                      intervals \in {get_pred_intervals(ri.original_times, Get(columns),
                                                        Get(min_trains),
                                                        IF isInt THEN "D" ELSE freq)}}) :
                ri \in {reindex_frame(Frame(tab.rows), isInt,
                                      IF isInt THEN "D" ELSE reind_freq, Get(columns))}}) :
          isInt \in {IsIntegerTime(tab.md, Get(columns))}})

point_estimates(preds, intervals) ==
  Concat([j \in DOMAIN preds |-> np_take(preds[j][1], intervals[j])])

take_ok(preds, intervals) ==
  \A j \in DOMAIN preds : \A s \in DOMAIN preds[j] : np_take_ok(preds[j][s], intervals[j])

all_quantiles(preds, intervals) ==
  [s \in 1..NumStats |-> Concat([j \in DOMAIN preds |-> np_take(preds[j][s], intervals[j])])]

col_names == <<5>> \o hyperparams.quantiles

\* a dict built from (name, column) pairs: a repeated name keeps its first place
\* and takes the last column given for it
RECURSIVE dict_items(_, _, _)
dict_items(names, cols, i) ==
  IF i > Len(names) \/ i > Len(cols) THEN <<>>
  ELSE LET n == IF Len(names) < Len(cols) THEN Len(names) ELSE Len(cols)
           isFirst == \A j \in 1..(i - 1) : names[j] # names[i]
           lastOf == CHOOSE j \in i..n : names[j] = names[i] /\ \A k \in (j + 1)..n : names[k] # names[i]
       IN (IF isFirst THEN <<[name |-> names[i], values |-> cols[lastOf]]>> ELSE <<>>)
          \o dict_items(names, cols, i + 1)

DataFrame(names, cols) == dict_items(names, cols, 1)

produce_frame(preds, intervals) ==
  DataFrame(<<output_column>>, <<point_estimates(preds, intervals)>>)

intervals_frame(preds, intervals) ==
  DataFrame(col_names, all_quantiles(preds, intervals))

\* the shared head of produce and produce_confidence_intervals
Forecasts(op, tab) ==
  /\ env.query > 0
  /\ env' = [env EXCEPT !.query = @ - 1]
  /\ UNCHANGED <<hyperparams, is_fit, output_column, columns, min_trains, deepar_dataset,
                 weights, saved, peer>>
  /\ IF IsNone(all_preds) /\ ~is_fit
     THEN /\ Called(op, tab, "", "PrimitiveNotFittedError", FALSE)
          /\ result' = <<>>
          /\ UNCHANGED <<freq, reind_freq, all_preds, pred_intervals, stale>>
     ELSE \E fresh \in {IsNone(all_preds)} :
          \E p \in {IF fresh THEN produce_internal(tab)
                    ELSE [freq |-> freq, reind_freq |-> reind_freq,
                          preds |-> Get(all_preds), pred_intervals |-> Get(pred_intervals)]} :
             /\ stale' = IF fresh THEN "no" ELSE stale
             /\ freq' = p.freq
             /\ reind_freq' = p.reind_freq
             /\ all_preds' = Some(p.preds)
             /\ pred_intervals' = Some(p.pred_intervals)
             /\ IF take_ok(p.preds, p.pred_intervals)
                THEN /\ Called(op, tab, "", "ok", fresh)
                     /\ result' = IF op = "produce" THEN produce_frame(p.preds, p.pred_intervals)
                                     ELSE intervals_frame(p.preds, p.pred_intervals)
                ELSE /\ Called(op, tab, "", "IndexError", fresh)
                     /\ result' = <<>>

Produce(tab) == Forecasts("produce", tab)

ProduceConfidenceIntervals(tab) == Forecasts("produce_confidence_intervals", tab)

Params ==
  [deepar_dataset |-> deepar_dataset,
   timestamp_column |-> Get(columns).timestamp_column,
   real_cols |-> Get(columns).real_columns,
   group_cols |-> Get(columns).grouping_columns,
   cat_cols |-> Get(columns).cat_columns,
   output_column |-> output_column,
   freq |-> freq,
   reind_freq |-> reind_freq,
   is_fit |-> is_fit,
   min_trains |-> min_trains]

GetParams ==
  /\ env.get > 0
  /\ env' = [env EXCEPT !.get = @ - 1]
  /\ result' = <<>>
  /\ UNCHANGED <<hyperparams, freq, reind_freq, is_fit, all_preds, pred_intervals,
                 output_column, columns, min_trains, deepar_dataset, weights, stale, peer>>
  /\ IF IsNone(deepar_dataset) \/ IsNone(columns) \/ IsNone(min_trains) \/ reind_freq = "Unset"
     THEN /\ Called("get_params", NoTable, "", "AttributeError", FALSE)
          /\ UNCHANGED saved
     ELSE /\ Called("get_params", NoTable, "", "ok", FALSE)
          /\ saved' = Some(Params)

SetParams ==
  /\ env.set > 0
  /\ ~IsNone(saved)
  /\ env' = [env EXCEPT !.set = @ - 1]
  /\ LET params == Get(saved)
     IN /\ deepar_dataset' = params.deepar_dataset
        /\ columns' = Some([Get(columns) EXCEPT !.timestamp_column = params.timestamp_column,
                                                !.real_columns = params.real_cols,
                                                !.grouping_columns = params.group_cols,
                                                !.cat_columns = params.cat_cols])
        /\ output_column' = params.output_column
        /\ freq' = params.freq
        /\ reind_freq' = params.reind_freq
        /\ is_fit' = params.is_fit
        /\ min_trains' = params.min_trains
  /\ result' = <<>>
  /\ Called("set_params", NoTable, "", "ok", FALSE)
  /\ UNCHANGED <<hyperparams, all_preds, pred_intervals, weights, saved, stale, peer>>

\* _get_cols alone, on the metadata of a table
ResolveRoles(tab) ==
  /\ last.op = "init"
  /\ IF Len(target_columns(tab.md)) = 0
     THEN /\ Called("_get_cols", tab, "", "ValueError: no target", FALSE)
          /\ UNCHANGED columns
     ELSE /\ Called("_get_cols", tab, "", "ok", FALSE)
          /\ columns' = Some(get_cols(tab.md))
  /\ UNCHANGED <<hyperparams, freq, reind_freq, is_fit, all_preds, pred_intervals,
                 output_column, min_trains, deepar_dataset, weights, saved, result, env,
                 stale, peer>>

\* a second instance is constructed with the same hyperparameters and given the
\* saved parameters; from here on the instance attributes are the second
\* instance's, and peer remembers the last call and the parameters of the first.
\* The trained weights are on disk under weights_dir and are shared.
Restore ==
  /\ IsNone(peer)
  /\ ~IsNone(saved)
  /\ peer' = Some([last |-> last, result |-> result, pred_intervals |-> pred_intervals,
                   params |-> Params, weights |-> weights])
  /\ all_preds' = None
  /\ pred_intervals' = None
  /\ stale' = "no"
  /\ LET params == Get(saved)
     IN /\ deepar_dataset' = params.deepar_dataset
        /\ columns' = Some([target_column |-> "Unset",
                            timestamp_column |-> params.timestamp_column,
                            grouping_columns |-> params.group_cols,
                            cat_columns |-> params.cat_cols,
                            real_columns |-> params.real_cols,
                            target_semantic_types |-> {}])
        /\ output_column' = params.output_column
        /\ freq' = params.freq
        /\ reind_freq' = params.reind_freq
        /\ is_fit' = params.is_fit
        /\ min_trains' = params.min_trains
  /\ result' = <<>>
  /\ Called("set_params", NoTable, "", "ok", FALSE)
  /\ UNCHANGED <<hyperparams, weights, saved, env>>

\* ----------------------------------------------------------- specifications
\* what the caller may do: how many calls of each kind, and which tables
Env(train, query, get, set, trainLens, queryLens, groups, maxt, plain, outs) ==
  [train |-> train, query |-> query, get |-> get, set |-> set,
   trainLens |-> trainLens, queryLens |-> queryLens, groups |-> groups, maxt |-> maxt,
   grouped |-> IF plain THEN {FALSE} ELSE BOOLEAN,
   ints |-> IF plain THEN {FALSE} ELSE BOOLEAN,
   targets |-> IF plain THEN {TRUE} ELSE BOOLEAN,
   outs |-> outs]

SetTrainingDataCall ==
  env.train > 0 /\ \E tab \in TrainTables(env), out \in env.outs : SetTrainingData(tab, out)

ProduceCall ==
  env.query > 0 /\ \E tab \in QueryTables(env) : Produce(tab)

ProduceConfidenceIntervalsCall ==
  env.query > 0 /\ \E tab \in QueryTables(env) : ProduceConfidenceIntervals(tab)

\* the life cycle of one instance in its default configuration: a caller that
\* trains, fits and queries twice and saves and restores the parameters, on
\* short ungrouped tables
Init ==
  /\ \E h \in DefaultHyperparams : Construct(h)
  /\ env = Env(LifeCalls, LifeCalls, 1, 1, {LifeRows}, 1..LifeRows, {"A"}, LifeTime,
               TRUE, {"y"})

Next ==
  \/ SetTrainingDataCall
  \/ Fit
  \/ ProduceCall
  \/ ProduceConfidenceIntervalsCall
  \/ GetParams
  \/ SetParams

Spec == Init /\ [][Next]_vars

\* a caller that trains again, with any schema, and queries once
InitRetrain ==
  /\ \E h \in DefaultHyperparams : Construct(h)
  /\ env = Env(LifeCalls, 1, 0, 0, 1..LifeRows, 1..LifeRows, {"A"}, LifeTime,
               FALSE, OutNames)

NextRetrain ==
  \/ SetTrainingDataCall
  \/ Fit
  \/ ProduceCall
  \/ ProduceConfidenceIntervalsCall

SpecRetrain == InitRetrain /\ [][NextRetrain]_vars

\* a caller that trains once and queries once, in any configuration, on any table
InitQuery ==
  /\ \E h \in Hyperparams : Construct(h)
  /\ env = Env(1, 1, 0, 0, 1..MaxRows, 1..MaxRows, Groups, MaxTime, FALSE, {"y"})

NextQuery ==
  \/ SetTrainingDataCall
  \/ Fit
  \/ ProduceCall
  \/ ProduceConfidenceIntervalsCall

SpecQuery == InitQuery /\ [][NextQuery]_vars

\* a caller that sets the training data of a new instance, on longer tables
InitTrain ==
  /\ \E h \in Hyperparams : Construct(h)
  /\ env = Env(1, 0, 0, 0, 1..MaxTrainRows, {}, Groups, MaxTrainTime, FALSE, {"y"})

NextTrain ==
  \/ SetTrainingDataCall
  \/ Fit

SpecTrain == InitTrain /\ [][NextTrain]_vars

\* a caller that saves the parameters of an instance and restores them, on the
\* instance itself and on a second one, and queries both
InitPersist ==
  /\ \E h \in DefaultHyperparams : Construct(h)
  /\ env = Env(1, PersistQueries, 1, 1, {LifeRows}, 1..LifeRows, {"A"}, LifeTime, TRUE, {"y"})

NextPersist ==
  \/ SetTrainingDataCall
  \/ Fit
  \/ ProduceCall
  \/ GetParams
  \/ SetParams
  \/ Restore

SpecPersist == InitPersist /\ [][NextPersist]_vars

\* column-role resolution on the metadata of any table
InitRoles ==
  /\ \E h \in DefaultHyperparams : Construct(h)
  /\ env = Env(0, 0, 0, 0, {}, {}, Groups, MaxTime, FALSE, {"y"})

ResolveRolesCall == last.op = "init" /\ \E tab \in TypedTables : ResolveRoles(tab)

NextRoles == ResolveRolesCall

SpecRoles == InitRoles /\ [][NextRoles]_vars

\* ------------------------------------------------------------- properties
IsQuery == last.op \in {"produce", "produce_confidence_intervals"}

Grouped == Len(Get(columns).grouping_columns) > 0

\* the groups of the last query table, in the order of its forecast arrays
QueryGroups ==
  IF Grouped THEN group_order(Frame(last.table.rows), Get(columns).grouping_columns)
  ELSE <<ListKey>>

RowGroup(row) == IF Grouped THEN group_key(row, Get(columns).grouping_columns) ELSE ListKey

RowTime(row) == to_datetime(row.t, IsIntegerTime(last.table.md, Get(columns)))

Trained(grp) == \E e \in Range(Get(min_trains)) : e.grp = grp

\* the offset the instance gives a query row, taken by itself
RowOffset(row) ==
  IF Grouped /\ ~Trained(RowGroup(row)) THEN 1
  ELSE (RowTime(row) - start_of(Get(min_trains), RowGroup(row))) \div Period(freq) + 1

\* the value the instance's arrays hold for a query row, taken by itself
RowForecast(row, s) ==
  LET j == CHOOSE k \in DOMAIN QueryGroups : QueryGroups[k] = RowGroup(row)
  IN np_item(Get(all_preds)[j][s], RowOffset(row))

\* C1: produce returns one value per query row, and the value at position i is
\* the forecast for query row i (same count, same order as the input)
C1_OutputFollowsInputRows ==
  (last.op = "produce" /\ last.outcome = "ok" /\ last.computed) =>
     /\ Len(result[1].values) = Len(last.table.rows)
     /\ \A i \in DOMAIN last.table.rows :
          result[1].values[i] = RowForecast(Frame(last.table.rows)[i], 1)

\* C2: on an instance that is not fitted, produce and
\* produce_confidence_intervals fail with the not-fitted error and return nothing
C2_UnfittedQueryFails ==
  (IsQuery /\ ~is_fit) => (last.outcome = "PrimitiveNotFittedError" /\ result = <<>>)

\* C3: the result returned for a query table is computed from that table's own
\* offsets and forecasts, never from those cached for an earlier table
C3_ResultComputedFromOwnInput ==
  (IsQuery /\ is_fit /\ last.outcome = "ok") =>
     LET p == produce_internal(last.table)
     IN /\ take_ok(p.preds, p.pred_intervals)
        /\ result = IF last.op = "produce" THEN produce_frame(p.preds, p.pred_intervals)
                    ELSE intervals_frame(p.preds, p.pred_intervals)

\* C4: after a re-fit (set_training_data, then fit) the next produce or
\* produce_confidence_intervals recomputes the forecasts: no query call ends
\* with arrays cached before the re-fit
\* (stale is "refit" while the cached arrays are older than a completed re-fit)
C4_RefitInvalidatesCache ==
  (IsQuery /\ is_fit) => stale # "refit"

\* C5: every offset of a query group that is absent from the TrainStart map is 0
C5_UnseenGroupOffsetZero ==
  (IsQuery /\ last.computed /\ Grouped) =>
     \A j \in DOMAIN QueryGroups :
        ~Trained(QueryGroups[j]) =>
           \A i \in DOMAIN Get(pred_intervals)[j] : Get(pred_intervals)[j][i] = 0

\* position in the flat output of the i-th offset of the j-th group
RECURSIVE FlatPos(_, _)
FlatPos(j, i) == IF j = 1 THEN i ELSE Len(Get(pred_intervals)[j - 1]) + FlatPos(j - 1, i)

\* C6: a row with offset o in 1..H gets ForecastArray[statistic, o-1] of its
\* group, and a row with any other offset gets the padding value
C6_OffsetSelectsOrPads ==
  (last.op = "produce" /\ last.outcome = "ok" /\ last.computed) =>
     \A j \in DOMAIN QueryGroups : \A i \in DOMAIN Get(pred_intervals)[j] :
        LET o == Get(pred_intervals)[j][i]
            fa == forecast_array(weights, QueryGroups[j])
            v == result[1].values[FlatPos(j, i)]
        IN IF 1 <= o /\ o <= hyperparams.prediction_length
           THEN v = fa[1][o]
           ELSE v = pad_value(fa, 1)

\* the distinct time points of the rows of a training table that have the key grp
SeriesTimes(tab, grp) ==
  {to_datetime(tab.rows[i].t, IsIntegerTime(tab.md, Get(columns))) :
     i \in {k \in DOMAIN tab.rows : RowGroup(tab.rows[k]) = grp}}

SetMax(S) == CHOOSE x \in S : \A y \in S : y <= x

SetMin(S) == CHOOSE x \in S : \A y \in S : x <= y

\* rows of the grid from the earliest to the latest time point of a series
GridLength(S) ==
  IF Cardinality(S) <= 1 THEN Cardinality(S)
  ELSE (SetMax(S) - SetMin(S)) \div Period(reind_freq) + 1

SeriesLengths(tab) ==
  {GridLength(SeriesTimes(tab, grp)) : grp \in {RowGroup(tab.rows[i]) : i \in DOMAIN tab.rows}}

C8_FailedTrainingKeepsState ==
  [][(is_fit /\ last'.op = "set_training_data"
        /\ last'.outcome \in {"ValueError: no target", "ValueError: horizon"})
       => fitted' = fitted]_vars

\* C9: once the instance is fitted, no produce, produce_confidence_intervals or
\* set_training_data call changes the frequency or the reindex frequency
C9_FrequencyImmutable ==
  [][(is_fit /\ last'.op \in {"produce", "produce_confidence_intervals", "set_training_data"})
       => (freq' = freq /\ reind_freq' = reind_freq)]_vars

\* C10: produce_confidence_intervals returns 1 + (number of quantiles) columns,
\* the point estimate first, each with one row per query row
C10_OneColumnPerStatistic ==
  (last.op = "produce_confidence_intervals" /\ last.outcome = "ok") =>
     /\ Len(result) = 1 + Len(hyperparams.quantiles)
     /\ \A c \in DOMAIN result : Len(result[c].values) = Len(last.table.rows)
     /\ result[1].values = point_estimates(Get(all_preds), Get(pred_intervals))

\* the instance's last call was set_params on itself with its own parameters
SelfRoundTrip == last'.op = "set_params" /\ peer' = peer /\ Get(saved) = Params

\* a fitted first instance answered produce for a table, and the second, holding
\* the first one's parameters and reading the same weights, has just answered
\* produce for the same table
BothAnswered ==
  /\ ~IsNone(peer)
  /\ Get(saved).is_fit
  /\ Get(peer).params = Get(saved)
  /\ Params = Get(saved)
  /\ weights = Get(peer).weights
  /\ Get(peer).last.op = "produce"
  /\ last.op = "produce"
  /\ last.table = Get(peer).last.table

\* C11: an instance's fitted state is unchanged by set_params of its own
\* get_params, and a second instance given the parameters of a fitted one is
\* fitted and, with no fit call, gives the same offsets and the same output as
\* the first for the same query table
C11_ParamsRoundTrip ==
  [][/\ SelfRoundTrip => fitted' = fitted
     /\ BothAnswered' =>
          (/\ is_fit'
           /\ last'.outcome = Get(peer').last.outcome
           /\ result' = Get(peer').result
           /\ pred_intervals' = Get(peer').pred_intervals)]_vars

\* the columns that have a role other than real-valued feature
OtherRoles(md, cols) ==
  {cols.timestamp_column, cols.target_column}
    \cup Range(cols.grouping_columns)
    \cup Range(list_columns_with_semantic_types(md, {"GroupingKey", "SuggestedGroupingKey"}))
    \cup cols.cat_columns

\* C12: after column-role resolution the real-valued feature columns contain no
\* timestamp, target, grouping (explicit or suggested) or categorical column
C12_RealColumnsDisjoint ==
  (last.op = "_get_cols" /\ last.outcome = "ok") =>
     Get(columns).real_columns \cap OtherRoles(last.table.md, Get(columns)) = {}

\* the series _set_freq samples: the first-encountered group, or the whole table
SampledSeries(tab) ==
  LET explicit == list_columns_with_semantic_types(tab.md, {"GroupingKey"})
      suggested == list_columns_with_semantic_types(tab.md, {"SuggestedGroupingKey"})
      g_cols == IF Len(explicit) = 0 THEN suggested ELSE explicit
  IN IF Len(g_cols) = 0 THEN Frame(tab.rows)
     ELSE group_frame(Frame(tab.rows), g_cols, group_key(Frame(tab.rows)[1], g_cols))

\* C13: set_training_data on a table whose sampled series has fewer than two
\* timestamps fails with an error, on a new instance and on one trained before
C13_ShortSampleFails ==
  (last.op = "set_training_data" /\ Len(SampledSeries(last.table)) < 2) =>
     last.outcome # "ok"

\* the group keys of the last training table (the one key ListKey when ungrouped)
TableGroups == {RowGroup(last.table.rows[i]) : i \in DOMAIN last.table.rows}

\* the rows of the stored regularized frame that belong to a series
StoredSeries(grp) ==
  SelectSeq(Get(deepar_dataset).frame, LAMBDA r : ~Grouped \/ r.g = grp)

\* C14: the TimePoints of every regularized series are strictly increasing, one
\* reindex-frequency step apart and without duplicates, and a series with one
\* distinct timestamp has exactly one row, which is its TrainStart
C14_RegularGrid ==
  (last.op = "set_training_data" /\ last.outcome = "ok") =>
     \A grp \in TableGroups :
        LET s == StoredSeries(grp)
            times == SeriesTimes(last.table, grp)
        IN /\ Len(s) >= 1
           /\ \A k \in 1..(Len(s) - 1) :
                 s[k].t < s[k + 1].t /\ s[k + 1].t - s[k].t = Period(reind_freq)
           /\ \A j, k \in DOMAIN s : j # k => s[j].t # s[k].t
           /\ Cardinality(times) = 1 =>
                 (Len(s) = 1 /\ {s[1].t} = times /\ start_of(Get(min_trains), grp) = s[1].t)

\* a grouped table was regularized: one series got a gap row, another has a
\* single timestamp
C14_Witness ==
  /\ last.op = "set_training_data"
  /\ last.outcome = "ok"
  /\ Grouped
  /\ \E grp \in TableGroups :
        Len(StoredSeries(grp)) >= 3 /\ \E k \in DOMAIN StoredSeries(grp) : StoredSeries(grp)[k].idx = 0
  /\ \E grp \in TableGroups : Cardinality(SeriesTimes(last.table, grp)) = 1

\* the stored training dataset is the one the model weights were trained on
TrainedOnStored == weights.data = deepar_dataset

\* C15: the instance is fitted only while its stored training dataset is the one
\* the model was trained on; between a set_training_data with new data and the
\* next fit, produce and produce_confidence_intervals fail with the not-fitted
\* error
C15_FittedOnlyOnTrainedData ==
  /\ is_fit => TrainedOnStored
  /\ (IsQuery /\ ~TrainedOnStored) => last.outcome = "PrimitiveNotFittedError"

\* the label of the first row of the table that has the key grp and the time tp
FirstObservation(tab, grp, tp) ==
  CHOOSE i \in DOMAIN tab.rows :
     /\ RowGroup(tab.rows[i]) = grp /\ RowTime(tab.rows[i]) = tp
     /\ \A j \in 1..(i - 1) : ~(RowGroup(tab.rows[j]) = grp /\ RowTime(tab.rows[j]) = tp)

\* C16: the regularized series of a group with more than one distinct timestamp
\* starts at its earliest and ends at its latest timestamp, has a row for every
\* observed timestamp with the target of its first observation, and every other
\* row is a gap row
C16_NoObservationLost ==
  (last.op = "set_training_data" /\ last.outcome = "ok") =>
     \A grp \in TableGroups :
        LET s == StoredSeries(grp)
            times == SeriesTimes(last.table, grp)
        IN Cardinality(times) > 1 =>
             /\ s[1].t = SetMin(times)
             /\ s[Len(s)].t = SetMax(times)
             /\ \A tp \in times : \E k \in DOMAIN s :
                   s[k].t = tp /\ s[k].idx = FirstObservation(last.table, grp, tp)
             /\ \A k \in DOMAIN s : s[k].t \notin times => s[k].idx = 0

====
